---- MODULE Spec2Model ----
(***************************************************************************)
(* Model of the orbital simulator engine (simulator/src/lib.rs): the Body  *)
(* registry, the live Kinematic table, the physics step, the snapshot      *)
(* history and the Simulating / LoadingSave mode machine.                  *)
(*                                                                         *)
(* Numbers.  The program computes in f64; the model computes in integers   *)
(* (fixed point, unit 1) and rounds every division toward zero, which is   *)
(* sign-symmetric like IEEE rounding.  Lengths, masses and times are in    *)
(* model units chosen so that the gravitational constant is 1.  Ids are    *)
(* 0-based as in the program; sequences are 1-based, so the registry       *)
(* record of id i is bodies[i + 1].  The colour attributes of a Body are   *)
(* not part of the model.                                                  *)
(***************************************************************************)
EXTENDS Integers, Sequences, FiniteSets, TLC

\* ------------------------------------------------------------------------
\* Bounds of the model
\* ------------------------------------------------------------------------

\* update is not taken once frames_elapsed has reached this many steps.
MaxFrames == 5

\* Width in bits of the machine integer isize (64 on the build targets).
IsizeBits == 5

\* In ClusterSpec, update is not taken once the registry holds this many
\* records.
MaxBodies == 6

\* The driver calls update at most this many times in one frame.
MaxSteps == 2

\* add is not taken once the builder holds this many entries.
MaxEntries == 2

\* SAVE_EVERY and SAVE_COUNT are 1_000 in the program; the model keeps the
\* same code with small values so that cadence and eviction happen.
SAVE_EVERY == 2

SAVE_COUNT == 2

\* ------------------------------------------------------------------------
\* Program constants (model units)
\* ------------------------------------------------------------------------

MIN_PULL_MASS == 50

MAX_PULL_DISTANCE == 12

GRAV_CONSTANT == 1

GravityDebugOff == FALSE

\* let debug_why_isnt_gravity_working = true of update
debug_why_isnt_gravity_working == TRUE

\* ------------------------------------------------------------------------
\* Arithmetic
\* ------------------------------------------------------------------------

Abs(a) == IF a < 0 THEN -a ELSE a

Sgn(a) == IF a < 0 THEN -1 ELSE IF a > 0 THEN 1 ELSE 0

\* Division of the fixed-point model: rounds toward zero.
Div(a, b) == Sgn(a) * Sgn(b) * (Abs(a) \div Abs(b))

Max(a, b) == IF a > b THEN a ELSE b

Min(a, b) == IF a < b THEN a ELSE b

RECURSIVE RootFrom(_, _, _)
\* Largest k >= from with k^e <= n (n >= from^e).
RootFrom(n, e, from) ==
    LET next == from + 1
        pow == IF e = 2 THEN next * next ELSE next * next * next
    IN  IF pow > n THEN from ELSE RootFrom(n, e, next)

Sqrt(n) == RootFrom(n, 2, 0)

Cbrt(n) == RootFrom(n, 3, 0)

VAdd(u, v) == <<u[1] + v[1], u[2] + v[2]>>

VScale(u, k) == <<u[1] * k, u[2] * k>>

VDiv(u, k) == <<Div(u[1], k), Div(u[2], k)>>

VZero == <<0, 0>>

ISIZE_MAX == 2 ^ (IsizeBits - 1) - 1

ISIZE_MIN == -(2 ^ (IsizeBits - 1))

\* Two's complement wrap of an integer into the isize range.
WrapIsize(n) == ((n - ISIZE_MIN) % (2 ^ IsizeBits)) + ISIZE_MIN

\* ------------------------------------------------------------------------
\* Bodies, kinemats, orbiters
\* ------------------------------------------------------------------------

Body(m, r, n, imm) == [mass |-> m, radius |-> r, name |-> n, immovable |-> imm]

KinematNew(pos, vel) == [pos |-> pos, vel |-> vel]

KinematZero == [pos |-> VZero, vel |-> VZero]

\* Kinemat::update: semi-implicit Euler.
KinematUpdate(kmat, dt, acc) ==
    LET vel == VAdd(kmat.vel, VScale(acc, dt))
    IN  [pos |-> VAdd(kmat.pos, VScale(vel, dt)), vel |-> vel]

Orbiter(b, k) == [body |-> b, kmat |-> k]

Simulating == [tag |-> "Simulating"]

LoadingSave(n) == [tag |-> "LoadingSave", number |-> n]

\* The empty HashMap.
EmptyMap == [id \in {} |-> KinematZero]

MapInsert(m, id, v) == [k \in DOMAIN m \cup {id} |-> IF k = id THEN v ELSE m[k]]

MapRemove(m, id) == [k \in DOMAIN m \ {id} |-> m[k]]

\* ------------------------------------------------------------------------
\* SolarSystem: helpers of the operations
\* ------------------------------------------------------------------------

\* self.bodies[id]
BodyAt(bs, id) == bs[id + 1]

\* Whether self.bodies[id] is in bounds (otherwise the index panics).
InBounds(bs, id) == id < Len(bs)

SaveSharesTable(svs, kms) ==
    [i \in 1..Min(Len(svs) + 1, SAVE_COUNT) |-> kms]

SaveDropsNewWhenFull(svs, kms) == IF Len(svs) >= SAVE_COUNT THEN svs ELSE Append(svs, kms)

SaveNeverEvicts(svs, kms) == Append(svs, kms)

\* SolarSystem::save: push_back a copy of the live table, then pop_front
\* when the history got longer than SAVE_COUNT.
save(svs, kms) ==
    LET pushed == Append(svs, kms)
    IN  IF Len(pushed) > SAVE_COUNT THEN Tail(pushed) ELSE pushed

CombinedWithoutRadius(body, kmat, other_body, other_kmat) ==
    Orbiter(Body(body.mass + other_body.mass, 0, body.name \o <<"&">> \o other_body.name,
                 body.immovable \/ other_body.immovable),
            KinematZero)

CombinedKeepsPullerMass(body, kmat, other_body, other_kmat) ==
    Orbiter(Body(body.mass, body.radius, body.name \o <<"&">> \o other_body.name,
                 body.immovable \/ other_body.immovable),
            KinematZero)

\* The collision branch of update: the Orbiter made of body (the puller,
\* with kinemat kmat) and other_body (with kinemat other_kmat).
Combined(body, kmat, other_body, other_kmat) ==
    LET dx == other_kmat.pos[1] - kmat.pos[1]
        dy == other_kmat.pos[2] - kmat.pos[2]
        total == body.mass + other_body.mass
        r1 == body.radius
        r2 == other_body.radius
    IN  Orbiter(
            Body(total,
                 Cbrt(r1 * r1 * r1 + r2 * r2 * r2),
                 body.name \o <<"&">> \o other_body.name,
                 body.immovable \/ other_body.immovable),
            IF ~body.immovable /\ other_body.immovable
            THEN KinematNew(
                     VAdd(kmat.pos, VDiv(VScale(<<dx, dy>>, other_body.mass), total)),
                     VDiv(VAdd(VScale(kmat.vel, body.mass),
                               VScale(other_kmat.vel, other_body.mass)), total))
            ELSE KinematZero)

\* The force branch of update: the force that the puller body applies to
\* other_body, at offset <<dx, dy>> from it.
ForceOn(body, other_body, dx, dy, dist_squared) ==
    LET force == -1 * GRAV_CONSTANT * Div(body.mass * other_body.mass, dist_squared)
    IN  VDiv(VScale(<<dx, dy>>, force), Sqrt(dist_squared))

\* forces.get(&id).unwrap_or(&Vector2D::zero())
ForceOr0(forces, id) == IF id \in DOMAIN forces THEN forces[id] ELSE VZero

\* The state of the scan of update: the three locals of the step, and
\* whether an index into bodies was out of bounds.
ScanStart ==
    [forces |-> [id \in {} |-> VZero], new_orbiters |-> <<>>,
     skip_ids |-> {}, panic |-> FALSE]

InnerStepPullsImmovable(bs, kms, id, other_id, st) ==
    LET kmat == kms[id]
        other_kmat == kms[other_id]
        body == BodyAt(bs, id)
        dx == other_kmat.pos[1] - kmat.pos[1]
        dy == other_kmat.pos[2] - kmat.pos[2]
        dist_squared == dx * dx + dy * dy
        other_body == BodyAt(bs, other_id)
        rr == body.radius + other_body.radius
    IN  IF other_id = id THEN st
        ELSE IF dist_squared > MAX_PULL_DISTANCE * MAX_PULL_DISTANCE THEN st
        ELSE IF ~InBounds(bs, other_id) THEN [st EXCEPT !.panic = TRUE]
        ELSE IF dist_squared < rr * rr
        THEN [st EXCEPT
                 !.skip_ids = @ \cup {other_id},
                 !.new_orbiters =
                     Append(@, [orbiter |-> Combined(body, kmat, other_body, other_kmat),
                                id1 |-> id, id2 |-> other_id])]
        ELSE [st EXCEPT
                 !.forces =
                     MapInsert(@, other_id,
                               VAdd(ForceOn(body, other_body, dx, dy, dist_squared),
                                    ForceOr0(st.forces, other_id)))]

InnerStepNoCutoff(bs, kms, id, other_id, st) ==
    LET kmat == kms[id]
        other_kmat == kms[other_id]
        body == BodyAt(bs, id)
        dx == other_kmat.pos[1] - kmat.pos[1]
        dy == other_kmat.pos[2] - kmat.pos[2]
        dist_squared == dx * dx + dy * dy
        other_body == BodyAt(bs, other_id)
        rr == body.radius + other_body.radius
    IN  IF other_id = id THEN st
        ELSE IF ~InBounds(bs, other_id) THEN [st EXCEPT !.panic = TRUE]
        ELSE IF other_body.immovable THEN st
        ELSE IF dist_squared < rr * rr
        THEN [st EXCEPT
                 !.skip_ids = @ \cup {other_id},
                 !.new_orbiters =
                     Append(@, [orbiter |-> Combined(body, kmat, other_body, other_kmat),
                                id1 |-> id, id2 |-> other_id])]
        ELSE [st EXCEPT
                 !.forces =
                     MapInsert(@, other_id,
                               VAdd(ForceOn(body, other_body, dx, dy, dist_squared),
                                    ForceOr0(st.forces, other_id)))]

\* One iteration of the inner loop of update (lines 77-148): the puller id
\* looks at other_id.
InnerStep(bs, kms, id, other_id, st) ==
    LET kmat == kms[id]
        other_kmat == kms[other_id]
        body == BodyAt(bs, id)
        dx == other_kmat.pos[1] - kmat.pos[1]
        dy == other_kmat.pos[2] - kmat.pos[2]
        dist_squared == dx * dx + dy * dy
        other_body == BodyAt(bs, other_id)
        rr == body.radius + other_body.radius
    IN  IF other_id = id THEN st
        ELSE IF dist_squared > MAX_PULL_DISTANCE * MAX_PULL_DISTANCE THEN st
        ELSE IF ~InBounds(bs, other_id) THEN [st EXCEPT !.panic = TRUE]
        ELSE IF other_body.immovable THEN st
        ELSE IF dist_squared < rr * rr
        THEN [st EXCEPT
                 !.skip_ids = @ \cup {other_id},
                 !.new_orbiters =
                     Append(@, [orbiter |-> Combined(body, kmat, other_body, other_kmat),
                                id1 |-> id, id2 |-> other_id])]
        ELSE [st EXCEPT
                 !.forces =
                     MapInsert(@, other_id,
                               VAdd(ForceOn(body, other_body, dx, dy, dist_squared),
                                    ForceOr0(st.forces, other_id)))]

RECURSIVE InnerLoop(_, _, _, _, _, _)
\* The inner loop of update over the table in iteration order ord, from
\* position j on.
InnerLoop(bs, kms, ord, id, j, st) ==
    IF j > Len(ord) \/ st.panic THEN st
    ELSE InnerLoop(bs, kms, ord, id, j + 1, InnerStep(bs, kms, id, ord[j], st))

\* One iteration of the outer loop of update (lines 67-150).
OuterStep(bs, kms, ord, id, st) ==
    IF id \in st.skip_ids THEN st
    ELSE IF ~InBounds(bs, id) THEN [st EXCEPT !.panic = TRUE]
    ELSE IF BodyAt(bs, id).mass > MIN_PULL_MASS \/ debug_why_isnt_gravity_working
    THEN InnerLoop(bs, kms, ord, id, 1, st)
    ELSE st

RECURSIVE OuterLoop(_, _, _, _, _)
\* The outer loop of update over the table in iteration order ord, from
\* position i on.
OuterLoop(bs, kms, ord, i, st) ==
    IF i > Len(ord) \/ st.panic THEN st
    ELSE OuterLoop(bs, kms, ord, i + 1, OuterStep(bs, kms, ord, ord[i], st))

AddOrbiterPushesFront(sys, oer) ==
    LET id == Len(sys.bodies)
    IN  [bodies |-> <<oer.body>> \o sys.bodies,
         kinemats |-> MapInsert(sys.kinemats, id, oer.kmat),
         ids |-> Append(sys.ids, id)]

\* SolarSystem::add_orbiter on the pair (bodies, kinemats); ids is the
\* sequence of the ids returned so far by the calls of one operation.
add_orbiter(sys, oer) ==
    LET id == Len(sys.bodies)
    IN  [bodies |-> Append(sys.bodies, oer.body),
         kinemats |-> MapInsert(sys.kinemats, id, oer.kmat),
         ids |-> Append(sys.ids, id)]

RECURSIVE ApplyMerges(_, _, _)
\* The drain loop of update (lines 152-158) from position k on.
ApplyMerges(sys, new_orbiters, k) ==
    IF k > Len(new_orbiters) THEN sys
    ELSE LET m == new_orbiters[k]
             removed == [sys EXCEPT
                            !.kinemats = MapRemove(MapRemove(@, m.id1), m.id2)]
         IN  ApplyMerges(add_orbiter(removed, m.orbiter), new_orbiters, k + 1)

\* The integration loop of update (lines 159-164): only the ids that have
\* an entry in forces and are still in the table are moved.
Integrate(bs, kms, forces, dt) ==
    [id \in DOMAIN kms |->
        IF id \in DOMAIN forces
        THEN KinematUpdate(kms[id], dt, VDiv(forces[id], BodyAt(bs, id).mass))
        ELSE kms[id]]

\* self.bodies.retain(..) of exit_load (lines 265-271): the closure counts
\* the positions 0, 1, 2, ... and keeps the record at position i exactly
\* when i is a key of the restored table.
RetainBodies(bs, kms) ==
    LET RECURSIVE Keep(_)
        Keep(i) ==
            IF i >= Len(bs) THEN <<>>
            ELSE (IF i \in DOMAIN kms THEN <<bs[i + 1]>> ELSE <<>>) \o Keep(i + 1)
    IN  Keep(0)

TruncateKeepsIndex(svs, len) ==
    IF len + 1 >= Len(svs) THEN svs ELSE SubSeq(svs, 1, len + 1)

\* VecDeque::truncate(len): keeps the first len entries.
Truncate(svs, len) == IF len >= Len(svs) THEN svs ELSE SubSeq(svs, 1, len)

\* The table get_orbiters reads: the live one, or the viewed snapshot.
\* self.saves[number] panics when number is out of range.
SelectedPanics(bs, kms, svs, md) ==
    IF md.tag = "Simulating" THEN \E id \in DOMAIN kms : ~InBounds(bs, id)
    ELSE \/ md.number >= Len(svs)
         \/ \E id \in DOMAIN svs[md.number + 1] : ~InBounds(bs, id)

\* SolarSystem::get_orbiters when no index panics.
GetOrbiters(bs, kms, svs, md) ==
    LET table == IF md.tag = "Simulating" THEN kms ELSE svs[md.number + 1]
    IN  [id \in DOMAIN table |-> Orbiter(BodyAt(bs, id), table[id])]

\* number as isize + by, in a build that wraps on overflow.
WrappingAdd(number, by) == WrapIsize(number + by)

\* Whether number as isize + by overflows isize (a panic in a build with
\* overflow checks).
AddOverflows(number, by) == number + by > ISIZE_MAX \/ number + by < ISIZE_MIN

\* The new index of change_load (lines 241-243), given the sum.
ClampIndex(sum, len) == Min(Max(sum, 0), len - 1)

NewestSaveOldest(svs) == 0

NewestSavePastEnd(svs) == Len(svs)

\* let newest_save = self.saves.len() - 1 of enable_load
newest_save(svs) == Len(svs) - 1

SaveToRestoreNewest(svs, number) == svs[Len(svs)]

\* self.saves.get(number) of exit_load, when it is Some
save_to_restore(svs, number) == svs[number + 1]

\* ------------------------------------------------------------------------
\* Inputs
\* ------------------------------------------------------------------------

BodyA == Body(120, 2, <<"a">>, FALSE)

BodyB == Body(60, 1, <<"b">>, FALSE)

BodyC == Body(10, 1, <<"c">>, FALSE)

BodyG == Body(120, 14, <<"g">>, FALSE)

BodyS == Body(120, 2, <<"s">>, TRUE)

BodyT == Body(60, 1, <<"t">>, TRUE)

At(b, x, y, vx, vy) == Orbiter(b, KinematNew(<<x, y>>, <<vx, vy>>))

\* The orbiter lists given to SolarSystem::new.
Seeds ==
    { <<>>,
      <<At(BodyA, 0, 0, 0, 0)>>,
      \* two movable bodies that overlap
      <<At(BodyA, 0, 0, 0, 0), At(BodyB, 2, 0, 0, 1)>>,
      \* two movable bodies in reach of each other
      <<At(BodyA, 0, 0, 0, 0), At(BodyB, 6, 0, 0, 2)>>,
      \* a movable body with a light movable body in reach
      <<At(BodyA, 0, 0, 0, 0), At(BodyC, 6, 0, 0, 1)>>,
      \* two movable bodies that approach and collide later
      <<At(BodyA, 0, 0, 0, 0), At(BodyB, 5, 0, -1, 0)>>,
      \* an immovable and a movable body that overlap
      <<At(BodyS, 0, 0, 0, 0), At(BodyB, 2, 0, 1, 0)>>,
      \* two immovable bodies that overlap
      <<At(BodyS, 0, 0, 0, 0), At(BodyT, 1, 1, 0, 0)>>,
      \* two bodies farther apart than MAX_PULL_DISTANCE
      <<At(BodyA, 0, 0, 1, 0), At(BodyB, 20, 0, 0, 0)>>,
      \* two bodies farther apart than MAX_PULL_DISTANCE, one of them so
      \* large that they overlap all the same
      <<At(BodyG, 0, 0, 0, 0), At(BodyB, 13, 0, 0, 1)>>,
      \* an immovable body with a light body off the axis and a far one
      <<At(BodyS, 0, 0, 0, 0), At(BodyC, 3, 4, 1, 0), At(BodyB, -8, 0, 0, -1)>> }

\* The time steps given to update.
DtSet == {1, 2}

\* Orbiter lists with three bodies close together, given to
\* SolarSystem::new in the specification ClusterSpec.
Clusters ==
    { \* three movable bodies, each overlapping the two others
      <<At(BodyA, 0, 0, 0, 0), At(BodyB, 1, 0, 0, 1), At(BodyC, 0, 1, 1, 0)>>,
      \* an immovable and two movable bodies, each overlapping the two others
      <<At(BodyS, 0, 0, 0, 0), At(BodyB, 1, 0, 0, 1), At(BodyC, 0, 1, 1, 0)>>,
      \* two movable bodies that overlap and a third one in reach of both
      <<At(BodyA, 0, 0, 0, 0), At(BodyB, 2, 0, 0, 1), At(BodyC, 6, 0, 0, 0)>>,
      \* two movable bodies that overlap, one of them fast
      <<At(BodyA, 0, 0, 0, 0), At(BodyB, 2, 0, 0, 6)>> }

\* The orbiter lists of the specification DriverSpec.
DriverSeeds ==
    { \* two movable bodies that approach and collide later
      <<At(BodyA, 0, 0, 0, 0), At(BodyB, 5, 0, -1, 0)>>,
      \* an immovable and a movable body in reach of each other
      <<At(BodyS, 0, 0, 0, 0), At(BodyB, 6, 0, 0, 2)>> }

\* The seconds_per_step of the driver.
DriverDts == {1}

\* The arguments given to change_load.
BySet == {ISIZE_MIN, -1, 1, ISIZE_MAX}

\* All the orders in which a HashMap with key set S can be iterated.
Orders(S) ==
    {ord \in [1..Cardinality(S) -> S] : \A i, j \in 1..Cardinality(S) : ord[i] = ord[j] => i = j}

\* ------------------------------------------------------------------------
\* State
\* ------------------------------------------------------------------------

VARIABLES
    bodies,          \* Vec<Body>: the registry, indexed by id
    kinemats,        \* HashMap<usize, Kinemat>: the live table
    saves,           \* VecDeque<HashMap<usize, Kinemat>>: the history
    frames_elapsed,  \* the step counter
    mode,            \* SimulationMode
    panic,           \* "" while the process runs, else the panic that ended it
    overflow_checks, \* whether the build panics on integer overflow (else it wraps)
    issued,          \* history: the set of all [id, body] that add_orbiter has stored
    last,            \* history: the last call, its argument and the state before it
    driver,          \* the viewer's State and its position in State::update
    loader           \* the SolarSystemBuilder of the loader, and what it returned

vars ==
    <<bodies, kinemats, saves, frames_elapsed, mode, panic, overflow_checks, issued, last,
      driver, loader>>

\* The keys that State::update passes on to the SolarSystem, and the one
\* that makes it skip them.
Keys == {"Return", "Semicolon", "Apostrophe", "Grave"}

\* State::new: no key was pressed in the last frame; the driver is between
\* two frames.
DriverStart ==
    [pc |-> "frame", keys |-> {}, prev_keys |-> {}, steps_left |-> 0, dt |-> 0]

\* SolarSystemBuilder::new: no entries, not used up; nothing was called and
\* nothing was returned yet.
LoaderStart ==
    [entries |-> <<>>, used_up |-> FALSE, out |-> <<>>, built |-> <<>>,
     op |-> "new"]

\* The fields of the SolarSystem, as one record.
Now ==
    [bodies |-> bodies, kinemats |-> kinemats, saves |-> saves,
     frames_elapsed |-> frames_elapsed, mode |-> mode]

\* The record of a call: op(arg) made in state Now, after the call prev; ret
\* is the sequence of the ids that add_orbiter returned during the call and
\* inputs the pairs of ids they were merged from.  sim_updates counts the
\* calls of update made while Simulating, and sim_only tells that update is
\* the only operation called since new.
Call(op, arg, ret) ==
    [op |-> op, arg |-> arg, ret |-> ret, inputs |-> <<>>, pre |-> Now, prev |-> last.op,
     sim_updates |-> last.sim_updates
                        + (IF op = "update" /\ mode.tag = "Simulating" THEN 1 ELSE 0),
     sim_only |-> last.sim_only /\ op = "update"]

\* The (id1, id2) of the entries of new_orbiters, in order.
MergeInputs(new_orbiters) ==
    [k \in 1..Len(new_orbiters) |-> <<new_orbiters[k].id1, new_orbiters[k].id2>>]

RECURSIVE AddAll(_, _, _)
\* The loop of SolarSystem::new (lines 44-46) from position k on.
AddAll(sys, orbiters, k) ==
    IF k > Len(orbiters) THEN sys
    ELSE AddAll(add_orbiter(sys, orbiters[k]), orbiters, k + 1)

\* The [id, body] entries of the ids that an operation handed out.
Issues(ids, bs) == {[id |-> ids[k], body |-> BodyAt(bs, ids[k])] : k \in 1..Len(ids)}

\* SolarSystem::new
Init ==
    \E orbiters \in Seeds :
        LET sys == AddAll([bodies |-> <<>>, kinemats |-> EmptyMap, ids |-> <<>>],
                          orbiters, 1)
        IN  /\ bodies = sys.bodies
            /\ kinemats = sys.kinemats
            /\ saves = <<>>
            /\ frames_elapsed = 0
            /\ mode = Simulating
            /\ panic = ""
            /\ overflow_checks \in BOOLEAN
            /\ issued = Issues(sys.ids, sys.bodies)
            /\ driver = DriverStart
            /\ loader = LoaderStart
            /\ last = [op |-> "new", arg |-> orbiters, ret |-> sys.ids, inputs |-> <<>>,
                       sim_updates |-> 0, sim_only |-> TRUE,
                       pre |-> [bodies |-> <<>>, kinemats |-> EmptyMap, saves |-> <<>>,
                                frames_elapsed |-> 0, mode |-> Simulating],
                       prev |-> "none"]

\* self.save_per, set once by new
save_per == SAVE_EVERY

MatchSimulatingAlways(md) == TRUE

\* match self.mode { SimulationMode::Simulating => .. } of update
MatchSimulating(md) == md.tag = "Simulating"

CadenceDueAfterIncrement(frames) == (frames + 1) % save_per = 0

\* if self.frames_elapsed % self.save_per == 0 of update
cadence_due(frames) == frames % save_per = 0

\* SolarSystem::update(dt); ord is the order in which the HashMap iterates.
update ==
    /\ panic = ""
    /\ frames_elapsed < MaxFrames
    /\ \E dt \in DtSet, ord \in Orders(DOMAIN kinemats) :
        /\ IF MatchSimulating(mode)
           THEN LET saved == IF cadence_due(frames_elapsed)
                             THEN save(saves, kinemats) ELSE saves
                    st == OuterLoop(bodies, kinemats, ord, 1, ScanStart)
                    merged == ApplyMerges([bodies |-> bodies, kinemats |-> kinemats,
                                           ids |-> <<>>], st.new_orbiters, 1)
                IN  IF st.panic
                    THEN /\ panic' = "index out of bounds"
                         /\ saves' = saved
                         /\ last' = Call("update", dt, <<>>)
                         /\ UNCHANGED <<bodies, kinemats, frames_elapsed, mode, issued>>
                    ELSE /\ saves' = saved
                         /\ bodies' = merged.bodies
                         /\ kinemats' = Integrate(merged.bodies, merged.kinemats,
                                                  st.forces, dt)
                         /\ frames_elapsed' = frames_elapsed + 1
                         /\ issued' = issued \cup Issues(merged.ids, merged.bodies)
                         /\ last' = [Call("update", dt, merged.ids)
                                        EXCEPT !.inputs = MergeInputs(st.new_orbiters)]
                         /\ UNCHANGED <<mode, panic>>
           ELSE /\ last' = Call("update", dt, <<>>)
                /\ UNCHANGED <<bodies, kinemats, saves, frames_elapsed, mode, panic,
                                issued>>
    /\ UNCHANGED overflow_checks

EnableLoadIgnoresWhenLoading ==
    /\ panic = ""
    /\ last' = Call("enable_load", <<>>, <<>>)
    /\ IF mode.tag = "Simulating"
       THEN /\ saves' = save(saves, kinemats)
            /\ mode' = LoadingSave(newest_save(saves'))
       ELSE UNCHANGED <<saves, mode>>
    /\ UNCHANGED <<bodies, kinemats, frames_elapsed, panic, overflow_checks, issued>>

\* SolarSystem::enable_load
enable_load ==
    /\ panic = ""
    /\ last' = Call("enable_load", <<>>, <<>>)
    /\ IF mode.tag = "Simulating"
       THEN /\ saves' = save(saves, kinemats)
            /\ mode' = LoadingSave(newest_save(saves'))
            /\ UNCHANGED panic
       ELSE /\ panic' = "Tried to turn on loading when loading was already turned on!"
            /\ UNCHANGED <<saves, mode>>
    /\ UNCHANGED <<bodies, kinemats, frames_elapsed, overflow_checks, issued>>

\* SolarSystem::change_load(by)
change_load ==
    /\ panic = ""
    /\ \E by \in BySet :
        /\ last' = Call("change_load", by, <<>>)
        /\ IF mode.tag = "LoadingSave"
           THEN IF overflow_checks /\ AddOverflows(mode.number, by)
                THEN /\ panic' = "attempt to add with overflow"
                     /\ UNCHANGED mode
                ELSE LET new_number == ClampIndex(WrappingAdd(mode.number, by), Len(saves))
                     IN  /\ mode' = IF 0 <= new_number /\ new_number < Len(saves)
                                    THEN LoadingSave(new_number) ELSE mode
                         /\ UNCHANGED panic
           ELSE /\ panic' = "Tried to change which backup is loaded while in simulating mode!"
                /\ UNCHANGED mode
    /\ UNCHANGED <<bodies, kinemats, saves, frames_elapsed, overflow_checks, issued>>

\* SolarSystem::exit_load
exit_load ==
    /\ panic = ""
    /\ last' = Call("exit_load", <<>>, <<>>)
    /\ IF mode.tag = "LoadingSave"
       THEN IF mode.number < Len(saves)
            THEN LET restore == save_to_restore(saves, mode.number)
                 IN  /\ kinemats' = restore
                     /\ bodies' = RetainBodies(bodies, restore)
                     /\ mode' = Simulating
                     /\ saves' = Truncate(saves, mode.number)
                     /\ UNCHANGED panic
            ELSE /\ panic' = "Tried to restore to backup but couldn't!"
                 /\ UNCHANGED <<bodies, kinemats, saves, mode>>
       ELSE /\ panic' = "Tried to exit loading mode while in simulating mode!"
            /\ UNCHANGED <<bodies, kinemats, saves, mode>>
    /\ UNCHANGED <<frames_elapsed, overflow_checks, issued>>

\* SolarSystem::get_orbiters: a query; it only changes the state by the
\* panic of an index out of bounds.
get_orbiters ==
    /\ panic = ""
    /\ panic' = IF SelectedPanics(bodies, kinemats, saves, mode)
                THEN "index out of bounds" ELSE ""
    /\ UNCHANGED <<bodies, kinemats, saves, frames_elapsed, mode, overflow_checks, issued,
                   last>>

\* The operations of the SolarSystem, called in any order.
Next ==
    \/ update /\ UNCHANGED <<driver, loader>>
    \/ enable_load /\ UNCHANGED <<driver, loader>>
    \/ change_load /\ UNCHANGED <<driver, loader>>
    \/ exit_load /\ UNCHANGED <<driver, loader>>
    \/ get_orbiters /\ UNCHANGED <<driver, loader>>

Spec == Init /\ [][Next]_vars

\* SolarSystem::new on one of the lists of Clusters.
ClusterInit ==
    \E orbiters \in Clusters :
        LET sys == AddAll([bodies |-> <<>>, kinemats |-> EmptyMap, ids |-> <<>>],
                          orbiters, 1)
        IN  /\ bodies = sys.bodies
            /\ kinemats = sys.kinemats
            /\ saves = <<>>
            /\ frames_elapsed = 0
            /\ mode = Simulating
            /\ panic = ""
            /\ overflow_checks \in BOOLEAN
            /\ issued = Issues(sys.ids, sys.bodies)
            /\ driver = DriverStart
            /\ loader = LoaderStart
            /\ last = [op |-> "new", arg |-> orbiters, ret |-> sys.ids, inputs |-> <<>>,
                       sim_updates |-> 0, sim_only |-> TRUE,
                       pre |-> [bodies |-> <<>>, kinemats |-> EmptyMap, saves |-> <<>>,
                                frames_elapsed |-> 0, mode |-> Simulating],
                       prev |-> "none"]

\* The operations on a cluster; update is not taken once the registry has
\* grown to MaxBodies records.
ClusterNext ==
    \/ Len(bodies) < MaxBodies /\ update /\ UNCHANGED <<driver, loader>>
    \/ enable_load /\ UNCHANGED <<driver, loader>>
    \/ change_load /\ UNCHANGED <<driver, loader>>
    \/ exit_load /\ UNCHANGED <<driver, loader>>
    \/ get_orbiters /\ UNCHANGED <<driver, loader>>

ClusterSpec == ClusterInit /\ [][ClusterNext]_vars

\* ------------------------------------------------------------------------
\* The driver: State::update of the viewer, one frame at a time
\* ------------------------------------------------------------------------

\* The variables of the SolarSystem and of its history.
sysvars ==
    <<bodies, kinemats, saves, frames_elapsed, mode, panic, overflow_checks, issued, last>>

\* let frames = steps_per_frame.ceil() as u32: at least one, since
\* sim_seconds_per_frame stays positive.
StepsSet == 1..MaxSteps

\* if let SimulationMode::Simulating = self.solar_system.get_mode()
ShouldStep(md) == md.tag = "Simulating"

MatchArmViewing(md) == "older"

\* match self.solar_system.get_mode(): the arm taken, by its first
\* statement.
MatchArm(md) == IF md.tag = "Simulating" THEN "toggle_on" ELSE "older"

\* keyboard::is_key_pressed(ctx, key) && !self.prev_keys.contains(&key)
JustPressed(key) == key \in driver.keys /\ key \notin driver.prev_keys

\* The driver after the last statement of the frame; prev_keys is what the
\* frame left in self.prev_keys.
FrameDone(prev_keys) ==
    [pc |-> "frame", keys |-> {}, prev_keys |-> prev_keys, steps_left |-> 0, dt |-> 0]

\* The top of the loop body of State::update: the keys that are down in this
\* frame, the number of steps and their dt, and the test of the mode.
frame_begin ==
    /\ panic = ""
    /\ driver.pc = "frame"
    /\ \E keys \in SUBSET Keys, frames \in StepsSet, dt \in DriverDts :
          driver' = [driver EXCEPT
                        !.keys = keys,
                        !.dt = IF ShouldStep(mode) THEN dt ELSE 0,
                        !.steps_left = IF ShouldStep(mode) THEN frames ELSE 0,
                        !.pc = IF ShouldStep(mode) THEN "step" ELSE "query"]
    /\ UNCHANGED sysvars

\* One iteration of for _ in 0..frames { self.solar_system.update(..) }
step_once ==
    /\ driver.pc = "step"
    /\ update
    /\ last'.arg = driver.dt
    /\ driver' = [driver EXCEPT
                     !.steps_left = @ - 1,
                     !.pc = IF driver.steps_left = 1 THEN "query" ELSE "step"]

\* let orbiters = self.solar_system.get_orbiters(), and the test of the
\* reset key: when it is down the frame ends here, prev_keys as it was.
query ==
    /\ driver.pc = "query"
    /\ get_orbiters
    /\ driver' = IF "Grave" \in driver.keys
                 THEN FrameDone(driver.prev_keys)
                 ELSE [driver EXCEPT !.pc = "match"]

\* match self.solar_system.get_mode()
match_mode ==
    /\ panic = ""
    /\ driver.pc = "match"
    /\ driver' = [driver EXCEPT !.pc = MatchArm(mode)]
    /\ UNCHANGED sysvars

\* The arm Simulating: Return, newly pressed, calls enable_load.
toggle_on ==
    /\ panic = ""
    /\ driver.pc = "toggle_on"
    /\ IF JustPressed("Return") THEN enable_load ELSE UNCHANGED sysvars
    /\ driver' = FrameDone(driver.keys)

\* The arm LoadingSave: Semicolon calls change_load(-1).
older ==
    /\ panic = ""
    /\ driver.pc = "older"
    /\ IF "Semicolon" \in driver.keys
       THEN change_load /\ last'.arg = -1
       ELSE UNCHANGED sysvars
    /\ driver' = [driver EXCEPT !.pc = "newer"]

\* The arm LoadingSave: Apostrophe calls change_load(1).
newer ==
    /\ panic = ""
    /\ driver.pc = "newer"
    /\ IF "Apostrophe" \in driver.keys
       THEN change_load /\ last'.arg = 1
       ELSE UNCHANGED sysvars
    /\ driver' = [driver EXCEPT !.pc = "toggle_off"]

\* The arm LoadingSave: Return, newly pressed, calls exit_load.
toggle_off ==
    /\ panic = ""
    /\ driver.pc = "toggle_off"
    /\ IF JustPressed("Return") THEN exit_load ELSE UNCHANGED sysvars
    /\ driver' = FrameDone(driver.keys)

\* The frames of State::update, one statement at a time.
DriverNext ==
    \/ frame_begin /\ UNCHANGED loader
    \/ step_once /\ UNCHANGED loader
    \/ query /\ UNCHANGED loader
    \/ match_mode /\ UNCHANGED loader
    \/ toggle_on /\ UNCHANGED loader
    \/ older /\ UNCHANGED loader
    \/ newer /\ UNCHANGED loader
    \/ toggle_off /\ UNCHANGED loader

\* main: SolarSystem::new on one of the lists of DriverSeeds, and State::new.
DriverInit ==
    \E orbiters \in DriverSeeds :
        LET sys == AddAll([bodies |-> <<>>, kinemats |-> EmptyMap, ids |-> <<>>],
                          orbiters, 1)
        IN  /\ bodies = sys.bodies
            /\ kinemats = sys.kinemats
            /\ saves = <<>>
            /\ frames_elapsed = 0
            /\ mode = Simulating
            /\ panic = ""
            /\ overflow_checks \in BOOLEAN
            /\ issued = Issues(sys.ids, sys.bodies)
            /\ driver = DriverStart
            /\ loader = LoaderStart
            /\ last = [op |-> "new", arg |-> orbiters, ret |-> sys.ids, inputs |-> <<>>,
                       sim_updates |-> 0, sim_only |-> TRUE,
                       pre |-> [bodies |-> <<>>, kinemats |-> EmptyMap, saves |-> <<>>,
                                frames_elapsed |-> 0, mode |-> Simulating],
                       prev |-> "none"]

\* The SolarSystem as the viewer drives it.
DriverSpec == DriverInit /\ [][DriverNext]_vars

\* ------------------------------------------------------------------------
\* The loader: SolarSystemBuilder and its entries (loader/src/builder.rs)
\* ------------------------------------------------------------------------

\* Option<usize>: None is the empty sequence, Some(n) the sequence <<n>>.
None == <<>>

Some(n) == <<n>>

\* SolarSystemBuilderEntry.  The generator that a MoonsBuilder or an
\* AsteroidsBuilder seeds is modelled by the masses it yields, `draws`, in the
\* order of the draws; the list is read cyclically.
Orbit(orbiter, children) ==
    [kind |-> "Orbit", orbiter |-> orbiter, children |-> children]

Locus(point, children) == [kind |-> "Locus", point |-> point, children |-> children]

MoonsBuilder(count, min_mass, max_mass, draws) ==
    [kind |-> "MoonsBuilder", count |-> count, min_mass |-> min_mass,
     max_mass |-> max_mass, draws |-> draws]

AsteroidsBuilder(total_mass, max_bodies, draws) ==
    [kind |-> "AsteroidsBuilder", total_mass |-> total_mass, max_bodies |-> max_bodies,
     draws |-> draws]

\* The draw number i (from 0) of the generator.
Draw(draws, i) == draws[(i % Len(draws)) + 1]

\* A generated Orbiter: immovable is false.  Its radius, colours and
\* kinematic are functions of the mass and of further draws that no loop
\* reads; they are not part of the model.
Generated(mass, name) == [body |-> [mass |-> mass, name |-> name, immovable |-> FALSE]]

\* The AsteroidsBuilder arm: the while loop over remaining_mass.  wip_mass
\* is normal.sample(..).abs() * MASS_AT_1, a draw that is never negative.
RECURSIVE AsteroidsLoop(_, _, _)
AsteroidsLoop(entry, remaining_mass, asteroids) ==
    IF /\ remaining_mass > 0
       /\ (entry.max_bodies = None \/ Len(asteroids) < entry.max_bodies[1])
    THEN LET wip_mass == Draw(entry.draws, Len(asteroids))
             remaining == remaining_mass - wip_mass
             mass == IF remaining < 0 THEN -remaining ELSE wip_mass
         IN  AsteroidsLoop(entry, remaining,
                           Append(asteroids, Generated(mass, <<"A", Len(asteroids)>>)))
    ELSE asteroids

\* The MoonsBuilder arm: count moons, each of a mass drawn by
\* gen_range(min_mass, max_mass).
Moons(entry) ==
    [k \in 1..entry.count |->
        Generated(entry.min_mass
                      + (Draw(entry.draws, k - 1) % (entry.max_mass - entry.min_mass)),
                  <<"M", k - 1>>)]

RECURSIVE construct_one_level(_, _, _, _)
RECURSIVE ConstructEach(_, _, _, _)
\* for entry in entries.drain(0..) { out.append(construct_one_level(entry, ..)) }
ConstructEach(entries, parent_mass, parent_pos, parent_vel) ==
    IF entries = <<>>
    THEN <<>>
    ELSE construct_one_level(Head(entries), parent_mass, parent_pos, parent_vel)
             \o ConstructEach(Tail(entries), parent_mass, parent_pos, parent_vel)

\* SolarSystemBuilder::construct_one_level
construct_one_level(entry, parent_mass, parent_pos, parent_vel) ==
    CASE entry.kind = "Orbit" ->
             LET pos == VAdd(parent_pos, entry.orbiter.kmat.pos)
                 vel == VAdd(parent_vel, entry.orbiter.kmat.vel)
                 mass == entry.orbiter.body.mass
             IN  <<Orbiter(entry.orbiter.body, KinematNew(pos, vel))>>
                     \o ConstructEach(entry.children, mass, pos, vel)
      [] entry.kind = "Locus" -> ConstructEach(entry.children, 0, entry.point, VZero)
      [] entry.kind = "MoonsBuilder" -> Moons(entry)
      [] entry.kind = "AsteroidsBuilder" -> AsteroidsLoop(entry, entry.total_mass, <<>>)

\* The draws of the asteroid generators of the model: some stay below the
\* total mass, some overshoot it at the first or at a later draw.
AsteroidDraws == {<<1>>, <<2, 1>>, <<0, 2>>, <<3, 6>>, <<7>>}

\* The entries given to SolarSystemBuilder::add.
BuilderEntries ==
    { Orbit(At(BodyB, 5, 0, 0, 1), <<>>),
      Orbit(At(BodyA, 1, 0, 0, 0),
            <<Orbit(At(BodyB, 5, 0, 0, 1), <<>>), AsteroidsBuilder(4, Some(2), <<3, 2>>)>>),
      Locus(<<2, 2>>, <<Orbit(At(BodyB, 3, 0, 0, 1), <<>>)>>),
      MoonsBuilder(2, 1, 3, <<4, 1>>) }
    \cup { AsteroidsBuilder(total_mass, max_bodies, draws) :
              total_mass \in {3, 4}, max_bodies \in {None, Some(0), Some(1), Some(2)},
              draws \in AsteroidDraws }

\* What a call leaves of the SolarSystem and of the driver: all but panic.
beside_loader ==
    <<bodies, kinemats, saves, frames_elapsed, mode, overflow_checks, issued, last, driver>>

\* SolarSystemBuilder::add
add ==
    \E ssbe \in BuilderEntries :
        /\ panic = ""
        /\ Len(loader.entries) < MaxEntries
        /\ IF loader.used_up
           THEN /\ panic' = "Tried to add an entry to a SolarSystemBuilder after it was constructed!"
                /\ loader' = [loader EXCEPT !.op = "add"]
           ELSE /\ panic' = panic
                /\ loader' = [loader EXCEPT !.entries = Append(@, ssbe),
                                            !.op = "add"]
        /\ UNCHANGED beside_loader

\* construct, were it to leave the builder usable.
ConstructLeavesUsable ==
    /\ panic = ""
    /\ IF loader.used_up
       THEN /\ panic' = "Tried to re-construct a SolarSystemBuilder after it was constructed!"
            /\ loader' = [loader EXCEPT !.op = "construct"]
       ELSE /\ panic' = panic
            /\ loader' =
                  [loader EXCEPT
                      !.entries = <<>>,
                      !.out = ConstructEach(loader.entries, 0, VZero, VZero),
                      !.built = [k \in 1..Len(loader.entries) |->
                                    [entry |-> loader.entries[k],
                                     orbiters |-> construct_one_level(loader.entries[k], 0,
                                                                      VZero, VZero)]],
                      !.op = "construct"]
    /\ UNCHANGED beside_loader

\* SolarSystemBuilder::construct; `built` keeps, for each entry drained,
\* the orbiters made of it.
construct ==
    /\ panic = ""
    /\ IF loader.used_up
       THEN /\ panic' = "Tried to re-construct a SolarSystemBuilder after it was constructed!"
            /\ loader' = [loader EXCEPT !.op = "construct"]
       ELSE /\ panic' = panic
            /\ loader' =
                  [loader EXCEPT
                      !.used_up = TRUE,
                      !.entries = <<>>,
                      !.out = ConstructEach(loader.entries, 0, VZero, VZero),
                      !.built = [k \in 1..Len(loader.entries) |->
                                    [entry |-> loader.entries[k],
                                     orbiters |-> construct_one_level(loader.entries[k], 0,
                                                                      VZero, VZero)]],
                      !.op = "construct"]
    /\ UNCHANGED beside_loader

\* The calls on a SolarSystemBuilder, in any order.
BuilderNext ==
    \/ add
    \/ construct

\* SolarSystemBuilder::new, before any SolarSystem is made of its orbiters.
BuilderInit ==
    /\ bodies = <<>>
    /\ kinemats = EmptyMap
    /\ saves = <<>>
    /\ frames_elapsed = 0
    /\ mode = Simulating
    /\ panic = ""
    /\ overflow_checks \in BOOLEAN
    /\ issued = {}
    /\ driver = DriverStart
    /\ loader = LoaderStart
    /\ last = [op |-> "new", arg |-> <<>>, ret |-> <<>>, inputs |-> <<>>,
               sim_updates |-> 0, sim_only |-> TRUE,
               pre |-> [bodies |-> <<>>, kinemats |-> EmptyMap, saves |-> <<>>,
                        frames_elapsed |-> 0, mode |-> Simulating],
               prev |-> "none"]

BuilderSpec == BuilderInit /\ [][BuilderNext]_vars

\* ------------------------------------------------------------------------
\* Properties
\* ------------------------------------------------------------------------

\* The call last.op returned (it did not panic).
Returned(op) == last.op = op /\ panic = ""

\* The step is a call of op (get_orbiters leaves last as it is).
Calls(op) == last' # last /\ last'.op = op

\* C1: every id of the live Kinematic Table is a valid index into the Body
\* Registry (id < registry length).
C1_LiveIdsIndexRegistry == \A id \in DOMAIN kinemats : InBounds(bodies, id)

\* C2: id permanence: the registry lookup of every id that add_orbiter has
\* assigned yields the Body it was assigned with, in every later state.
C2_IdPermanence ==
    \A e \in issued : InBounds(bodies, e.id) /\ BodyAt(bodies, e.id) = e.body

\* C3: the ids returned by add_orbiter are strictly increasing over the
\* lifetime of the system: each id returned by a call is larger than every
\* id stored before, and than the ids returned earlier in the same call.
C3_IdsStrictlyIncreasing ==
    [][last' # last
          => \A k \in 1..Len(last'.ret) :
                /\ \A e \in issued : e.id < last'.ret[k]
                /\ \A j \in 1..(k - 1) : last'.ret[j] < last'.ret[k]]_vars

\* C4: every id stored in every snapshot retained in the history resolves to
\* a Body of the registry, so get_orbiters succeeds on every snapshot that
\* change_load can select.
C4_SnapshotIdsResolve ==
    \A i \in 1..Len(saves) : \A id \in DOMAIN saves[i] : InBounds(bodies, id)

\* C5: enable_load immediately followed by exit_load leaves the live table
\* with the ids, positions and velocities it had when enable_load was called.
C5_RoundTrip ==
    [][(Returned("enable_load") /\ Calls("exit_load"))
          => /\ panic' = ""
             /\ mode' = Simulating
             /\ kinemats' = last.pre.kinemats]_vars

C5_Witness ==
    /\ Returned("exit_load") /\ last.prev = "enable_load"
    /\ Cardinality(DOMAIN kinemats) >= 2
    /\ frames_elapsed >= 1

C7_ExitLoadKeepsRestored ==
    Returned("exit_load")
        => saves = SubSeq(last.pre.saves, 1, last.pre.mode.number + 1)

\* C8: in mode LoadingSave(i) the index resolves in the history, so
\* exit_load never reaches the "could not restore" panic.
C8_ViewedIndexResolves ==
    /\ mode.tag = "LoadingSave" => (0 <= mode.number /\ mode.number < Len(saves))
    /\ panic # "Tried to restore to backup but couldn't!"

C8_Witness ==
    /\ mode.tag = "LoadingSave"
    /\ Returned("change_load") /\ last.arg = ISIZE_MIN
    /\ last.pre.mode.number = 1
    /\ Len(saves) = SAVE_COUNT

\* C9: change_load(by) in LoadingSave(i) never errors, for any by of the
\* machine integer range, and moves to index i + by clamped to
\* [0, history length - 1].
C9_ChangeLoadClamps ==
    (last.op = "change_load" /\ last.pre.mode.tag = "LoadingSave")
        => /\ panic = ""
           /\ mode = LoadingSave(Min(Max(last.pre.mode.number + last.arg, 0),
                                     Len(saves) - 1))

\* C10: enable_load while Simulating appends a snapshot equal to the live
\* table and moves to LoadingSave(n), n the index of that snapshot (the
\* last one, also after an eviction), so get_orbiters reads the same
\* positions and velocities right after it as right before it.
C10_EnableLoadSnapshots ==
    Returned("enable_load")
        => /\ last.pre.mode = Simulating
           /\ Len(saves) >= 1
           /\ mode = LoadingSave(Len(saves) - 1)
           /\ saves[Len(saves)] = last.pre.kinemats
           /\ kinemats = last.pre.kinemats
           /\ bodies = last.pre.bodies
           /\ SelectedPanics(bodies, kinemats, saves, mode)
                = SelectedPanics(bodies, last.pre.kinemats, last.pre.saves, Simulating)
           /\ ~SelectedPanics(bodies, kinemats, saves, mode)
                => GetOrbiters(bodies, kinemats, saves, mode)
                     = GetOrbiters(bodies, last.pre.kinemats, last.pre.saves, Simulating)

C10_Witness ==
    /\ Returned("enable_load")
    /\ Len(last.pre.saves) = SAVE_COUNT
    /\ saves[1] # saves[Len(saves)]
    /\ kinemats # EmptyMap

\* The panics of the mode preconditions.
PreconditionPanics ==
    {"Tried to turn on loading when loading was already turned on!",
     "Tried to change which backup is loaded while in simulating mode!",
     "Tried to exit loading mode while in simulating mode!"}

C12_UpdateWhileViewingIsNoOp ==
    [][(Calls("update") /\ mode.tag = "LoadingSave")
          => /\ UNCHANGED <<kinemats, bodies, saves, frames_elapsed, mode>>
             /\ panic' = ""]_vars

C12_Witness ==
    /\ Returned("update")
    /\ mode.tag = "LoadingSave"
    /\ cadence_due(frames_elapsed)
    /\ \E ord \in Orders(DOMAIN kinemats) :
          LET st == OuterLoop(bodies, kinemats, ord, 1, ScanStart)
          IN  ~st.panic /\ Len(st.new_orbiters) >= 1

\* C13: get_orbiters returns one entry per id of the table that the mode
\* selects (the live table, or the snapshot viewed), pairing the kinemat of
\* that table with the Body that the id was registered with; change_load
\* does not change the live table.
C13_GetOrbitersReflectsSelected ==
    /\ ~SelectedPanics(bodies, kinemats, saves, mode)
    /\ LET table == IF mode.tag = "Simulating" THEN kinemats ELSE saves[mode.number + 1]
           got == GetOrbiters(bodies, kinemats, saves, mode)
       IN  /\ DOMAIN got = DOMAIN table
           /\ \A id \in DOMAIN table :
                 /\ got[id].kmat = table[id]
                 /\ [id |-> id, body |-> got[id].body] \in issued
    /\ Returned("change_load") => kinemats = last.pre.kinemats

\* C14: the history never holds more than SAVE_COUNT entries; and when only
\* update has been called since new and more than SAVE_COUNT saves have been
\* triggered, it holds exactly SAVE_COUNT entries.
C14_HistoryBound ==
    /\ Len(saves) <= SAVE_COUNT
    /\ (last.sim_only /\ panic = ""
          /\ (frames_elapsed + save_per - 1) \div save_per > SAVE_COUNT)
         => Len(saves) = SAVE_COUNT

C14_Witness ==
    /\ last.sim_only /\ Returned("update")
    /\ (frames_elapsed + save_per - 1) \div save_per > SAVE_COUNT
    /\ Len(saves) = SAVE_COUNT
    /\ Len(last.pre.saves) = SAVE_COUNT

\* The step performs a save: enable_load, or an update at the cadence,
\* called while Simulating.
Saves ==
    \/ Calls("enable_load") /\ mode.tag = "Simulating"
    \/ Calls("update") /\ mode.tag = "Simulating" /\ cadence_due(frames_elapsed)

\* The history after a save that evicted: without its oldest entry, the
\* other entries in order, and the copy of the live table last.
Evicted == Tail(saves) \o <<kinemats>>

\* C15: a save on a full history removes exactly the oldest entry, keeps the
\* others in order one index lower and puts the new copy last; entries
\* leave the history only by this eviction or by the truncation of
\* exit_load.
C15_FifoEviction ==
    [][/\ (Saves /\ Len(saves) = SAVE_COUNT) => saves' = Evicted
       /\ Calls("exit_load")
            => (Len(saves') <= Len(saves) /\ saves' = SubSeq(saves, 1, Len(saves')))
       /\ (saves' # saves /\ ~Calls("exit_load"))
            => \/ Len(saves) < SAVE_COUNT /\ saves' = Append(saves, kinemats)
               \/ Len(saves) = SAVE_COUNT /\ saves' = Evicted]_vars

C15_Witness ==
    /\ Returned("update")
    /\ Len(last.pre.saves) = SAVE_COUNT
    /\ saves = Tail(last.pre.saves) \o <<last.pre.kinemats>>
    /\ last.pre.saves[1] # last.pre.saves[Len(last.pre.saves)]
    /\ saves[1] # saves[Len(saves)]

\* C16: numbering from 0 the calls of update made while Simulating, the
\* calls whose number is a multiple of SAVE_EVERY take a snapshot and no
\* other call of update changes the history; enable_load, change_load and
\* exit_load neither reset nor advance the step counter.
C16_SaveCadence ==
    [][/\ (Calls("update") /\ mode.tag = "Simulating")
            => /\ last.sim_updates % SAVE_EVERY = 0
                    => \/ saves' = Append(saves, kinemats)
                       \/ saves # <<>> /\ saves' = Evicted
               /\ last.sim_updates % SAVE_EVERY # 0 => saves' = saves
       /\ (last' # last /\ panic' = "") => frames_elapsed' = last'.sim_updates]_vars

C16_Witness ==
    /\ Returned("update")
    /\ last.pre.mode.tag = "Simulating"
    /\ ~last.sim_only
    /\ last.pre.frames_elapsed = SAVE_EVERY
    /\ saves # last.pre.saves

\* C17: new assigns the ids 0..n-1 in list order: the k-th Body is the
\* registry record of id k and the k-th Kinemat the live entry of id k; the
\* mode is Simulating, the history empty and the step counter 0.
C17_Construction ==
    last.op = "new"
        => LET n == Len(last.arg)
           IN  /\ Len(bodies) = n
               /\ DOMAIN kinemats = 0..(n - 1)
               /\ last.ret = [k \in 1..n |-> k - 1]
               /\ \A k \in 0..(n - 1) :
                     /\ BodyAt(bodies, k) = last.arg[k + 1].body
                     /\ kinemats[k] = last.arg[k + 1].kmat
               /\ mode = Simulating
               /\ saves = <<>>
               /\ frames_elapsed = 0

C17_Witness ==
    /\ last.op = "new"
    /\ Len(last.arg) = 3
    /\ kinemats[2] = last.arg[3].kmat

\* C18: every merged Body that update registers has the mass of its first
\* input plus the mass of its second input.
C18_MergeMassIsSum ==
    Returned("update")
        => \A k \in 1..Len(last.ret) :
              BodyAt(bodies, last.ret[k]).mass
                = BodyAt(last.pre.bodies, last.inputs[k][1]).mass
                    + BodyAt(last.pre.bodies, last.inputs[k][2]).mass

C18_Witness ==
    /\ Returned("update")
    /\ Len(last.ret) >= 1
    /\ BodyAt(bodies, last.ret[1]).mass = BodyA.mass + BodyB.mass
    /\ last.inputs[1] = <<1, 0>>

\* The ids of sys are exactly two, both registered.
TwoBodies(sys) ==
    /\ Cardinality(DOMAIN sys.kinemats) = 2
    /\ \A id \in DOMAIN sys.kinemats : InBounds(sys.bodies, id)

\* The squared distance of the centers of the ids a and b of sys.
DistSquared(sys, a, b) ==
    LET dx == sys.kinemats[b].pos[1] - sys.kinemats[a].pos[1]
        dy == sys.kinemats[b].pos[2] - sys.kinemats[a].pos[2]
    IN  dx * dx + dy * dy

\* The centers of the two bodies of sys are closer than the sum of their
\* radii.
TwoOverlap(sys) ==
    /\ TwoBodies(sys)
    /\ \A a, b \in DOMAIN sys.kinemats :
          a # b => LET rr == BodyAt(sys.bodies, a).radius + BodyAt(sys.bodies, b).radius
                   IN  DistSquared(sys, a, b) < rr * rr

\* The sum of the masses of the ids of sys.
RECURSIVE MassOf(_, _)
MassOf(sys, ids) ==
    IF ids = {} THEN 0
    ELSE LET id == CHOOSE i \in ids : TRUE
         IN  BodyAt(sys.bodies, id).mass + MassOf(sys, ids \ {id})

\* C19: one update of a system of exactly two bodies whose centers are
\* closer than the sum of their radii leaves exactly one active id, newly
\* assigned, of mass m1 + m2, whatever the immovable flags and the
\* iteration order.
C19_TwoBodyCollision ==
    (Returned("update") /\ last.pre.mode.tag = "Simulating" /\ TwoOverlap(last.pre))
        => \E new \in DOMAIN kinemats :
              /\ DOMAIN kinemats = {new}
              /\ new \notin DOMAIN last.pre.kinemats
              /\ last.ret = <<new>>
              /\ BodyAt(bodies, new).mass = MassOf(last.pre, DOMAIN last.pre.kinemats)

\* The total momentum of the table kms: the sum of mass times velocity.
RECURSIVE Momentum(_, _, _)
Momentum(bs, kms, ids) ==
    IF ids = {} THEN VZero
    ELSE LET id == CHOOSE i \in ids : TRUE
         IN  VAdd(VScale(kms[id].vel, BodyAt(bs, id).mass), Momentum(bs, kms, ids \ {id}))

\* The largest mass of the ids of sys.
MaxMass(sys) ==
    CHOOSE m \in {BodyAt(sys.bodies, id).mass : id \in DOMAIN sys.kinemats} :
        \A id \in DOMAIN sys.kinemats : BodyAt(sys.bodies, id).mass <= m

\* sys holds exactly two bodies, both movable.
TwoMovable(sys) ==
    /\ TwoBodies(sys)
    /\ \A id \in DOMAIN sys.kinemats : ~BodyAt(sys.bodies, id).immovable

StepOf(sys, dt, ord) ==
    LET st == OuterLoop(sys.bodies, sys.kinemats, ord, 1, ScanStart)
        merged == ApplyMerges([bodies |-> sys.bodies, kinemats |-> sys.kinemats,
                               ids |-> <<>>], st.new_orbiters, 1)
    IN  [panic |-> st.panic,
         new_orbiters |-> st.new_orbiters,
         skip_ids |-> st.skip_ids,
         forces |-> st.forces,
         bodies |-> merged.bodies,
         kinemats |-> IF st.panic THEN sys.kinemats
                      ELSE Integrate(merged.bodies, merged.kinemats, st.forces, dt)]

\* The step is a call of update that took the simulating branch and
\* returned.
Stepped == Returned("update") /\ last.pre.mode.tag = "Simulating"

\* C21: update is a deterministic function of (registry, live table, dt):
\* whatever the order in which the live table is iterated, the step ends
\* with the same set of active ids, the same masses and the same positions
\* and velocities, also when three or more bodies overlap.
C21_Determinism ==
    Stepped
        => \A ord \in Orders(DOMAIN last.pre.kinemats) :
              LET other == StepOf(last.pre, last.arg, ord)
              IN  /\ ~other.panic
                  /\ other.kinemats = kinemats
                  /\ \A id \in DOMAIN kinemats :
                        BodyAt(other.bodies, id).mass = BodyAt(bodies, id).mass

\* The ids that are inputs of the k-th merge queued by the last update.
InputsOf(k) == {last.inputs[k][1], last.inputs[k][2]}

\* C22: within one update an id consumed by a merge is skipped for the rest
\* of the step, as puller and as other: no id is an input of more than one
\* merge queued in the same step.
C22_ConsumedOnce ==
    Stepped
        => \A j, k \in 1..Len(last.inputs) : j # k => InputsOf(j) \cap InputsOf(k) = {}

\* The ids that the last update registered.
Registered == {last.ret[k] : k \in 1..Len(last.ret)}

\* C23: applying the queued merges removes both inputs of each merge from
\* the live table and adds exactly one new id per merge; an update never
\* increases the number of active ids, and lowers it whenever a merge was
\* queued.
C23_MergesReduceCount ==
    Stepped
        => LET before == DOMAIN last.pre.kinemats
               consumed == UNION {InputsOf(k) : k \in 1..Len(last.inputs)}
           IN  /\ Len(last.ret) = Len(last.inputs)
               /\ Cardinality(Registered) = Len(last.ret)
               /\ Registered \cap before = {}
               /\ DOMAIN kinemats = (before \ consumed) \cup Registered
               /\ Cardinality(DOMAIN kinemats) <= Cardinality(before)
               /\ Len(last.inputs) >= 1
                    => Cardinality(DOMAIN kinemats) < Cardinality(before)

\* The mass-weighted average of the kinemats pk and ok of two bodies of
\* mass pm and om.
WeightedAverage(pm, pk, om, ok) ==
    KinematNew(VDiv(VAdd(VScale(pk.pos, pm), VScale(ok.pos, om)), pm + om),
               VDiv(VAdd(VScale(pk.vel, pm), VScale(ok.vel, om)), pm + om))

\* The kinemat of every merge that the last update queued follows the rule
\* of the flags of its (puller, other).
MergedKinematRule ==
    \A k \in 1..Len(last.ret) :
        LET p == last.inputs[k][1]
            o == last.inputs[k][2]
            pb == BodyAt(last.pre.bodies, p)
            ob == BodyAt(last.pre.bodies, o)
        IN  kinemats[last.ret[k]]
              = IF ~pb.immovable /\ ob.immovable
                THEN WeightedAverage(pb.mass, last.pre.kinemats[p],
                                     ob.mass, last.pre.kinemats[o])
                ELSE KinematZero

\* Some iteration order of the table of sys makes update queue the merge
\* of (puller, other).
CanMerge(sys, dt, puller, other) ==
    \E ord \in Orders(DOMAIN sys.kinemats) :
        \E k \in 1..Len(StepOf(sys, dt, ord).new_orbiters) :
            LET m == StepOf(sys, dt, ord).new_orbiters[k]
            IN  m.id1 = puller /\ m.id2 = other

\* C24: a merge of (puller, other) with the puller movable and the other
\* immovable gets the mass-weighted averages as position and velocity, and
\* every other combination of the flags the zero vectors; and each of the
\* four combinations can produce a merge: of two overlapping bodies, either
\* can be the puller of the merge.
C24_MergedKinematic ==
    Stepped
        => /\ MergedKinematRule
           /\ TwoOverlap(last.pre)
                => \A puller, other \in DOMAIN last.pre.kinemats :
                      puller # other => CanMerge(last.pre, last.arg, puller, other)

\* C25: a merge conserves momentum: the mass of the merged body times its
\* velocity is the sum of mass times velocity of the two bodies it was
\* formed from, up to the rounding of one division by the merged mass.
C25_MergeConservesMomentum ==
    Stepped
        => \A k \in 1..Len(last.ret) :
              LET p == last.inputs[k][1]
                  o == last.inputs[k][2]
                  merged == BodyAt(bodies, last.ret[k]).mass
                  after == VScale(kinemats[last.ret[k]].vel, merged)
                  before == VAdd(VScale(last.pre.kinemats[p].vel,
                                        BodyAt(last.pre.bodies, p).mass),
                                 VScale(last.pre.kinemats[o].vel,
                                        BodyAt(last.pre.bodies, o).mass))
              IN  /\ Abs(after[1] - before[1]) < merged
                  /\ Abs(after[2] - before[2]) < merged

\* The body of id in sys is a puller: its mass exceeds MIN_PULL_MASS.
IsPuller(sys, id) == BodyAt(sys.bodies, id).mass > MIN_PULL_MASS

\* C26: only pullers initiate scans: a body whose mass does not exceed
\* MIN_PULL_MASS is never the puller of a merge and never contributes a
\* force, so every body that accumulates a force has a puller other than
\* itself among the active bodies.
C26_OnlyPullersScan ==
    Stepped
        => \A ord \in Orders(DOMAIN last.pre.kinemats) :
              LET step == StepOf(last.pre, last.arg, ord)
              IN  ~step.panic
                    => /\ \A k \in 1..Len(step.new_orbiters) :
                             IsPuller(last.pre, step.new_orbiters[k].id1)
                       /\ \A other \in DOMAIN step.forces :
                             \E id \in DOMAIN last.pre.kinemats \ {other} :
                                IsPuller(last.pre, id)

\* C27: integration covers every remaining active orbiter: after an update
\* every movable id that was active before the step and was not consumed
\* has velocity' = velocity + (force / mass) * dt and position' = position
\* + velocity' * dt, the force being zero for a body that no puller
\* contributed to.
C27_IntegrationCoversAll ==
    Stepped
        => \E ord \in Orders(DOMAIN last.pre.kinemats) :
              LET step == StepOf(last.pre, last.arg, ord)
              IN  /\ ~step.panic
                  /\ step.kinemats = kinemats
                  /\ \A id \in DOMAIN last.pre.kinemats \cap DOMAIN kinemats :
                        LET body == BodyAt(last.pre.bodies, id)
                            acc == VDiv(ForceOr0(step.forces, id), body.mass)
                        IN  ~body.immovable
                              => kinemats[id]
                                   = KinematUpdate(last.pre.kinemats[id], last.arg, acc)

\* The last call was an update that took the simulating branch at the
\* cadence: numbering those calls from 0, its number is a multiple of
\* SAVE_EVERY.
SteppedAtCadence == Stepped /\ (last.sim_updates - 1) % SAVE_EVERY = 0

\* C28: the cadence snapshot saved during an update is a copy of the live
\* table as it stands after the merges and the integration of that call.
C28_SnapshotAfterStep ==
    SteppedAtCadence => (Len(saves) >= 1 /\ saves[Len(saves)] = kinemats)

\* C28, amended: the cadence snapshot saved during an update is a copy of
\* the live table as it stood when the call began, before the merges and
\* the integration of that call; the snapshot of step 0 is the table that
\* new built.
C28_SnapshotBeforeStep ==
    /\ SteppedAtCadence => (Len(saves) >= 1 /\ saves[Len(saves)] = last.pre.kinemats)
    /\ (Stepped /\ last.prev = "new") => saves = <<last.pre.kinemats>>

C28_Witness ==
    /\ SteppedAtCadence
    /\ last.sim_updates > 1
    /\ kinemats # last.pre.kinemats
    /\ saves[Len(saves)] = last.pre.kinemats
    /\ Len(last.ret) >= 1

\* The position of id among the ids of the live table in increasing order.
Rank(id) == Cardinality({other \in DOMAIN kinemats : other < id}) + 1

\* C29: after exit_load the registry holds exactly the Body records of the
\* ids of the restored table, one per id and in increasing id order, and
\* no record of an id absent from that table.
C29_RegistryPrunedToRestored ==
    Returned("exit_load")
        => /\ kinemats = last.pre.saves[last.pre.mode.number + 1]
           /\ Len(bodies) = Cardinality(DOMAIN kinemats)
           /\ \A id \in DOMAIN kinemats :
                 [id |-> id, body |-> bodies[Rank(id)]] \in issued

\* C30: snapshots are independent copies: a snapshot that stays in the
\* history keeps its set of ids and every position and velocity, whatever
\* update, merge, enable_load, change_load or exit_load happens: the
\* entries that remain are the old ones, moved down by one index when a
\* save evicted the oldest, while the live table changes freely.
C30_SnapshotsIndependent ==
    [][LET d == IF Saves /\ Len(saves) = SAVE_COUNT THEN 1 ELSE 0
       IN  \A i \in 1..Len(saves') : i + d <= Len(saves) => saves'[i] = saves[i + d]]_vars

C30_Witness ==
    /\ Stepped
    /\ last.prev = "exit_load"
    /\ Len(last.pre.saves) >= 1
    /\ kinemats # last.pre.kinemats
    /\ DOMAIN kinemats # DOMAIN last.pre.kinemats
    /\ saves[1] = last.pre.saves[1]

\* The centers of the ids a and b of sys are farther apart than
\* MAX_PULL_DISTANCE.
OutOfReach(sys, a, b) == DistSquared(sys, a, b) > MAX_PULL_DISTANCE * MAX_PULL_DISTANCE

\* C31: a pair (puller, other) whose squared distance exceeds
\* MAX_PULL_DISTANCE squared is ignored in that step, whatever the radii:
\* no merge of such a pair is queued, a body that accumulates a force has
\* another body in reach, and a table whose pairs are all out of reach is
\* left as it was.
C31_MaxPullDistance ==
    Stepped
        => LET ids == DOMAIN last.pre.kinemats
           IN  /\ \A ord \in Orders(ids) :
                     LET step == StepOf(last.pre, last.arg, ord)
                     IN  ~step.panic
                           => /\ \A k \in 1..Len(step.new_orbiters) :
                                    ~OutOfReach(last.pre, step.new_orbiters[k].id1,
                                                step.new_orbiters[k].id2)
                              /\ \A other \in DOMAIN step.forces :
                                    \E id \in ids \ {other} :
                                       ~OutOfReach(last.pre, id, other)
               /\ (\A a, b \in ids : a # b => OutOfReach(last.pre, a, b))
                    => (last.ret = <<>> /\ kinemats = last.pre.kinemats)

C31_Witness ==
    /\ Stepped
    /\ TwoOverlap(last.pre)
    /\ \A a, b \in DOMAIN last.pre.kinemats : a # b => OutOfReach(last.pre, a, b)
    /\ kinemats = last.pre.kinemats
    /\ \E id \in DOMAIN kinemats : kinemats[id].vel # VZero

\* C32: the driver only issues legal calls: enable_load and update only
\* while Simulating, change_load and exit_load only while LoadingSave, so
\* no sequence of keys over any number of frames ends in a panic of the
\* mode preconditions.
C32_DriverIssuesLegalCalls ==
    [][/\ (Calls("enable_load") \/ Calls("update")) => mode.tag = "Simulating"
       /\ (Calls("change_load") \/ Calls("exit_load")) => mode.tag = "LoadingSave"
       /\ panic' \notin PreconditionPanics]_vars

C32_Witness ==
    /\ Returned("exit_load")
    /\ last.prev = "change_load"
    /\ driver.pc = "frame"
    /\ driver.prev_keys = {"Return", "Apostrophe"}
    /\ frames_elapsed >= 2

\* Every id of the live table of sys indexes its registry.
Resolves(sys) == \A id \in DOMAIN sys.kinemats : InBounds(sys.bodies, id)

\* C33: total mass is conserved by a step: the sum of the masses of the
\* active ids after update equals the sum before it, whatever the number of
\* bodies that overlap in that step.
C33_TotalMassConserved ==
    (Stepped /\ Resolves(last.pre) /\ Resolves(Now))
        => MassOf(Now, DOMAIN kinemats) = MassOf(last.pre, DOMAIN last.pre.kinemats)

\* The ids of sys whose Body is immovable.
Immovables(sys) ==
    {id \in DOMAIN sys.kinemats : InBounds(sys.bodies, id) /\ BodyAt(sys.bodies, id).immovable}

\* C34: an immovable body never moves: update leaves the position and the
\* velocity of every immovable id that stays in the live table as they
\* were; such an id is never given a force and never is the other of a
\* merge.
C34_ImmovableNeverMoves ==
    Stepped
        => /\ \A id \in Immovables(last.pre) \cap DOMAIN kinemats :
                 kinemats[id] = last.pre.kinemats[id]
           /\ \A ord \in Orders(DOMAIN last.pre.kinemats) :
                 LET scan == StepOf(last.pre, last.arg, ord)
                 IN  \A id \in Immovables(last.pre) :
                        /\ id \notin DOMAIN scan.forces
                        /\ id \notin scan.skip_ids
                        /\ \A k \in 1..Len(scan.new_orbiters) :
                              scan.new_orbiters[k].id2 # id

C34_Witness ==
    /\ Stepped
    /\ last.sim_updates >= 2
    /\ \E id \in Immovables(last.pre) \cap DOMAIN kinemats :
          \E other \in DOMAIN kinemats \ {id} :
             /\ other \in DOMAIN last.pre.kinemats
             /\ ~OutOfReach(last.pre, id, other)
             /\ kinemats[other].vel # last.pre.kinemats[other].vel

\* The step is an exit_load that follows an enable_load at once.
RoundTrip == Returned("enable_load") /\ Calls("exit_load")

ForceBranch(sys, id, other) ==
    /\ id # other
    /\ ~OutOfReach(sys, id, other)
    /\ ~BodyAt(sys.bodies, other).immovable
    /\ LET rr == BodyAt(sys.bodies, id).radius + BodyAt(sys.bodies, other).radius
       IN  ~(DistSquared(sys, id, other) < rr * rr)

\* C36: the force branch never divides by zero: the radii of the active
\* bodies are strictly positive, merged ones included, and every pair that
\* reaches the force branch has a squared distance, and a distance, above
\* zero; a pair at distance zero is a collision or is skipped.
C36_NoDivisionByZero ==
    Resolves(Now)
        => /\ \A id \in DOMAIN kinemats : BodyAt(bodies, id).radius > 0
           /\ \A id, other \in DOMAIN kinemats :
                 ForceBranch(Now, id, other)
                    => /\ DistSquared(Now, id, other) > 0
                       /\ Sqrt(DistSquared(Now, id, other)) > 0

C36_Witness ==
    /\ Stepped
    /\ Len(last.ret) = 1
    /\ DistSquared(last.pre, last.inputs[1][1], last.inputs[1][2]) = 0
    /\ last.sim_updates = 2
    /\ DOMAIN kinemats = {last.ret[1]}

\* The step is a call of op on the SolarSystemBuilder.
BuilderCalls(op) == loader'.op = op /\ <<loader, panic>>' # <<loader, panic>>

\* C37: the SolarSystemBuilder is single-use: before construct every add
\* returns and stores its entry; the first construct returns the orbiters
\* of the entries added and marks the builder used up; every add and every
\* construct on a used-up builder panics.
C37_BuilderSingleUse ==
    [][/\ (BuilderCalls("add") /\ ~loader.used_up)
            => /\ panic' = ""
               /\ ~loader'.used_up
               /\ Len(loader'.entries) = Len(loader.entries) + 1
               /\ SubSeq(loader'.entries, 1, Len(loader.entries)) = loader.entries
       /\ (BuilderCalls("construct") /\ ~loader.used_up)
            => /\ panic' = ""
               /\ loader'.used_up
               /\ loader'.out = ConstructEach(loader.entries, 0, VZero, VZero)
       /\ ((BuilderCalls("add") \/ BuilderCalls("construct")) /\ loader.used_up)
            => panic' # ""
       /\ loader.used_up => loader'.used_up]_vars

\* An add has panicked on a builder whose construct had returned the
\* orbiters of two entries.
C37_Witness ==
    /\ loader.used_up
    /\ loader.op = "add"
    /\ panic # ""
    /\ Len(loader.built) = MaxEntries
    /\ Len(loader.out) > Len(loader.built)

\* The sum of the masses of a list of orbiters.
RECURSIVE SumOfMasses(_)
SumOfMasses(orbiters) ==
    IF orbiters = <<>>
    THEN 0
    ELSE Head(orbiters).body.mass + SumOfMasses(Tail(orbiters))

\* C38: the AsteroidsBuilder never withdraws more than the available
\* mass: the masses of the asteroids made of an entry sum to at most its
\* total_mass, and with max_bodies given at most max_bodies are made.
C38_AsteroidsWithinTotalMass ==
    \A k \in 1..Len(loader.built) :
        LET entry == loader.built[k].entry
            asteroids == loader.built[k].orbiters
        IN  entry.kind = "AsteroidsBuilder"
               => /\ SumOfMasses(asteroids) <= entry.total_mass
                  /\ entry.max_bodies # None => Len(asteroids) <= entry.max_bodies[1]

====
